---- MODULE Spec2Model ----
(***************************************************************************)
(* StudyLion: study session tracker (session_tracker.py), periodic voice   *)
(* scanner (time_tracker.py) and scheduled-session booking (commands.py).  *)
(*                                                                         *)
(* Optional values (Python None) are sequences of length 0 or 1:           *)
(* <<>> is None and <<v>> is the value v.                                   *)
(***************************************************************************)
EXTENDS Integers, Sequences, FiniteSets, TLC

(***************************************************************************)
(* Bounds of the model.                                                    *)
(***************************************************************************)
\* The clock runs from 0 to MaxTime.
MaxTime == 2
\* Session objects of one member that can be alive at once (in the cache, or
\* with a sleeping expiry coroutine).
MaxSessions == 2
\* _delayed_start tasks of one member that can be alive or registered at once.
MaxTasks == 2
\* The scanner's clock runs from 0 to MaxScanTime, in ticks of SecondsPerTick.
MaxScanTime == 3
\* A member's balance stays at or under MaxCoins.
MaxCoins == 4
SecondsPerTick == 60 * 10

Members == {"u1", "u2"}
Channels == {"A", "B", "U"}
NoChannel == "None"

\* untracked_channels.get(guild.id).data: the guild's untracked channel list.
untracked == {"U"}

VoiceStates ==
    {[channel |-> NoChannel, self_video |-> FALSE, self_stream |-> FALSE]}
    \cup [channel : Channels, self_video : BOOLEAN, self_stream : BOOLEAN]

\* Voice states without a stream; without any live flag in a tracked channel;
\* and outside channel B.
VideoVoice == {v \in VoiceStates : ~v.self_stream}
PlainVoice == {v \in VideoVoice : ~v.self_video /\ v.channel # "U"}
ScanVoice == {v \in VideoVoice : v.channel # "B" /\ ~(v.channel = "U" /\ v.self_video)}

SessionIds == 1..MaxSessions
TaskIds == 1..MaxTasks

VARIABLES
    now,                    \* utc_now()
    voice,                  \* member -> the member's current voice state
    guild_resolvable,       \* client.get_guild(guildid) is not None
    blacklist,              \* client.objects['blacklisted_users']
    guild_blacklist,        \* client.objects['ignored_members'][guild.id]
    remaining_study_today,  \* member -> Lion.remaining_study_today
    current_sessions,       \* member -> <<>> or <<row>>: the open session rows
    sessions,               \* Session.sessions[guildid]: member -> object id, 0 if absent
    members_pending,        \* Session.members_pending[guildid]: member -> task id, 0 if absent
    objects,                \* member -> id -> Session object [expiry, expiry_task]
    tasks,                  \* member -> id -> _delayed_start task [status, state]
    init_pc,                \* position of _init_session_tracker
    module_ready,           \* module.ready
    handler_attached,       \* session_voice_tracker is attached to voice_state_update
    last_call,              \* the last operation run and how it ended
    \* voice scanner (time_tracker.py)
    time,                   \* time(), in units of SecondsPerTick
    last_scan,              \* last_scan: guild -> <<>> or <<timestamp>>
    scan_pc,                \* _study_tracker: 0 asleep, i about to scan the i-th guild
    scan_voice,             \* guild -> member -> voice state, as the scanner sees it
    bots,                   \* the members with member.bot
    guild_hourly_reward,    \* guild -> hourly_reward.get(guild.id).data
    guild_hourly_live_bonus,\* guild -> hourly_live_bonus.get(guild.id).data
    lion_time,              \* guild -> member -> seconds added by Lion.addTime
    lion_coins,             \* guild -> member -> coins added by Lion.addCoins, in 1/3600 coin
    scan_result,            \* what the last _scan did
    \* scheduled sessions (commands.py)
    coins,                  \* member -> ctx.alion.coins
    accountability_price,   \* ctx.guild_settings.accountability_price.value
    accountability_rooms,   \* start time -> the slot row [exists, channelid]
    accountability_members, \* member -> start time -> the 'paid' of the member's rows
    user_locks,             \* user_locks: member -> the context registered, or NoCtx
    ctxs,                   \* context -> the command it runs and where it is suspended
    room_lock,              \* the holder of room_lock, or NoCtx
    upcoming_slot,          \* AGuild.cache[guildid].upcoming_slot
    sweep_pc                \* position of the scheduled sweep

session_vars ==
    <<now, voice, guild_resolvable, blacklist, guild_blacklist, remaining_study_today,
      current_sessions, sessions, members_pending, objects, tasks, init_pc,
      module_ready, handler_attached, last_call>>

scan_vars ==
    <<time, last_scan, scan_pc, scan_voice, bots, guild_hourly_reward,
      guild_hourly_live_bonus, lion_time, lion_coins, scan_result>>

book_vars ==
    <<coins, accountability_price, accountability_rooms, accountability_members,
      user_locks, ctxs, room_lock, upcoming_slot, sweep_pc>>

vars == <<session_vars, scan_vars, book_vars>>

non_session_vars == <<scan_vars, book_vars>>

non_scan_vars == <<session_vars, book_vars>>

non_book_vars == <<session_vars, scan_vars>>

(***************************************************************************)
(* Session tracker: helpers.                                               *)
(***************************************************************************)
NoVoice == [channel |-> NoChannel, self_video |-> FALSE, self_stream |-> FALSE]

\* A Session object that was never constructed (or is garbage).
NoObject == [expiry |-> 0, expiry_task |-> <<>>]

NoTask == [status |-> "free", state |-> NoVoice]

Min(set) == CHOOSE x \in set : \A y \in set : x <= y

\* The in-memory and persisted state the Session class works on, as one value,
\* so that a handler can pass it through the calls it makes.  raised is the
\* exception that ended the call, "none" if it returned.
Engine ==
    [current_sessions |-> current_sessions,
     sessions |-> sessions,
     members_pending |-> members_pending,
     objects |-> objects,
     tasks |-> tasks,
     raised |-> "none"]

\* The member's object ids not referenced by the cache and with no expiry
\* coroutine alive.
FreeSessionIds(S, m) ==
    {i \in SessionIds : S.objects[m][i].expiry = 0 /\ S.sessions[m] # i}

\* The member's task ids not registered and not sleeping.
FreeTaskIds(S, m) ==
    {i \in TaskIds : S.tasks[m][i].status # "sleeping" /\ S.members_pending[m] # i}

\* asyncio.Task.cancel(): a sleeping _delayed_start gets CancelledError and
\* passes; a task that is done is left as it is.
TaskCancel_Skip(S, m, tid) == S

TaskCancel_Raises(S, m, tid) ==
    IF S.tasks[m][tid].status = "sleeping"
    THEN [S EXCEPT !.tasks[m][tid].status = "cancelled"]
    ELSE [S EXCEPT !.raised = "InvalidStateError"]

TaskCancel(S, m, tid) ==
    IF S.tasks[m][tid].status = "sleeping"
    THEN [S EXCEPT !.tasks[m][tid].status = "cancelled"]
    ELSE S

\* Lion.fetch(guildid, userid).remaining_study_today <= 0
StudyCapped(m) == remaining_study_today[m] <= 0

(***************************************************************************)
(* Session methods.                                                        *)
(***************************************************************************)
\* current_sessions.create_row(...) in Session.start
create_row(state, t) ==
    [channelid |-> state.channel,
     start_time |-> t,
     live_start |-> IF state.self_video \/ state.self_stream THEN <<t>> ELSE <<>>,
     stream_start |-> IF state.self_stream THEN <<t>> ELSE <<>>,
     video_start |-> IF state.self_video THEN <<t>> ELSE <<>>,
     live_duration |-> 0,
     stream_duration |-> 0,
     video_duration |-> 0]

\* Session.schedule_expiry: one more _schedule_expiry coroutine of the object.
\* Its first step cancels self._expiry_task if set, and then sleeps.
schedule_expiry_Dropped(S, m, sid) == S

schedule_expiry(S, m, sid) ==
    [S EXCEPT !.objects[m][sid].expiry = @ + 1]

\* Session(guildid, userid).activate()
activate(S, sid, m) ==
    LET S1 == [S EXCEPT !.objects[m][sid] = NoObject,
                        !.sessions[m] = sid]
    IN schedule_expiry(S1, m, sid)

\* Session.start(member, state) at time t, below its check of the cache
start_new(S, m, state, t) ==
    IF StudyCapped(m)
    THEN LET pending == S.members_pending[m]
             S1 == IF pending # 0
                   THEN TaskCancel([S EXCEPT !.members_pending[m] = 0], m, pending)
                   ELSE S
         IN IF FreeTaskIds(S1, m) = {}
            THEN [S EXCEPT !.raised = "bound"]
            ELSE LET tid == Min(FreeTaskIds(S1, m))
                 IN [S1 EXCEPT !.tasks[m][tid] = [status |-> "sleeping", state |-> state],
                               !.members_pending[m] = tid]
    ELSE IF FreeSessionIds(S, m) = {}
    THEN [S EXCEPT !.raised = "bound"]
    ELSE LET sid == Min(FreeSessionIds(S, m))
             S1 == [S EXCEPT !.current_sessions[m] = <<create_row(state, t)>>]
         IN activate(S1, sid, m)

\* Mutant: start without its check of the cache.
start_Unchecked(S, m, state, t) == start_new(S, m, state, t)

\* Session.start(member, state) at time t
start(S, m, state, t) ==
    IF S.sessions[m] # 0
    THEN [S EXCEPT !.raised = "ValueError"]
    ELSE start_new(S, m, state, t)

\* Session._delayed_start once its sleep has ended without a cancellation:
\* the task is over and calls Session.start with the arguments it was given.
delayed_start_Pass(S, m, tid, t) == [S EXCEPT !.tasks[m][tid].status = "done"]

delayed_start(S, m, tid, t) ==
    start([S EXCEPT !.tasks[m][tid].status = "done"], m, S.tasks[m][tid].state, t)

\* Mutant: finish closes the row and leaves the member in the cache.
finish_KeepCache(S, m, sid) == [S EXCEPT !.current_sessions[m] = <<>>]

\* Session.finish() of the object sid of member m; sid = 0 is an object that
\* was constructed and never activated (_init_session_tracker).
\* self._expiry_task holds what asyncio.sleep returned, never a task, so the
\* cancel below it is guarded by never runs.
finish(S, m, sid) ==
    LET S1 == [S EXCEPT !.current_sessions[m] = <<>>,
                        !.sessions[m] = 0]
    IN IF sid # 0 /\ S1.objects[m][sid].expiry_task # <<>>
       THEN [S1 EXCEPT !.objects[m][sid].expiry = 0]
       ELSE S1

\* Mutant: the running time is not added.
FoldDuration_Dropped(duration, started, t) == duration

\* One sub-timer of save_live_status: fold the running time into the duration.
FoldDuration(duration, started, t) ==
    IF started # <<>> THEN duration + (t - started[1]) ELSE duration

\* Session.save_live_status(state) at time t
save_live_status(S, m, state, t) ==
    IF S.current_sessions[m] = <<>>
    THEN [S EXCEPT !.raised = "AttributeError"]
    ELSE LET data == S.current_sessions[m][1]
             has_video == state.self_video
             has_stream == state.self_stream
             is_live == has_video \/ has_stream
         IN [S EXCEPT !.current_sessions[m] =
                <<[data EXCEPT
                    !.video_duration = FoldDuration(data.video_duration, data.video_start, t),
                    !.video_start = IF has_video THEN <<t>> ELSE <<>>,
                    !.stream_duration = FoldDuration(data.stream_duration, data.stream_start, t),
                    !.stream_start = IF has_stream THEN <<t>> ELSE <<>>,
                    !.live_duration = FoldDuration(data.live_duration, data.live_start, t),
                    !.live_start = IF is_live THEN <<t>> ELSE <<>>]>>]

(***************************************************************************)
(* Voice event dispatcher.                                                 *)
(***************************************************************************)
\* start_session of session_voice_tracker
start_session_AnyMember(m, after) == after.channel \notin untracked

start_session(m, after) ==
    /\ after.channel \notin untracked
    /\ m \notin blacklist
    /\ m \notin guild_blacklist

\* session_voice_tracker(client, member, before, after) at time t
session_voice_tracker(S, m, before, after, t) ==
    LET session == S.sessions[m] IN
    IF before.channel = after.channel
    THEN IF /\ session # 0
            /\ \/ before.self_video # after.self_video
               \/ before.self_stream # after.self_stream
         THEN save_live_status(S, m, after, t)
         ELSE S
    ELSE LET pending == S.members_pending[m]
             S1 == IF session # 0
                   THEN finish(S, m, session)
                   ELSE IF pending # 0
                   THEN TaskCancel([S EXCEPT !.members_pending[m] = 0], m, pending)
                   ELSE S
         IN IF after.channel # NoChannel /\ start_session(m, after)
            THEN start(S1, m, after, t)
            ELSE S1

(***************************************************************************)
(* Startup: _init_session_tracker.                                         *)
(***************************************************************************)
\* One iteration of the loop over the open rows.  fails: the storage call of
\* this iteration raises (save_live_status after activate, or finish).
ResumeRow(S, m, fails, t) ==
    IF S.current_sessions[m] = <<>>
    THEN S
    ELSE LET row == S.current_sessions[m][1] IN
         IF ~(guild_resolvable /\ row.channelid # NoChannel)
         THEN S
         ELSE LET present == voice[m].channel = row.channelid IN
              IF present /\ voice[m].channel # NoChannel
              THEN IF FreeSessionIds(S, m) = {}
                   THEN [S EXCEPT !.raised = "bound"]
                   ELSE LET S1 == activate(S, Min(FreeSessionIds(S, m)), m)
                        IN IF fails
                           THEN [S1 EXCEPT !.raised = "Exception"]
                           ELSE save_live_status(S1, m, voice[m], t)
              ELSE IF fails
                   THEN [S EXCEPT !.raised = "Exception"]
                   ELSE finish(S, m, 0)

RECURSIVE ResumeRows(_, _, _, _)
ResumeRows(S, order, failAt, t) ==
    IF order = <<>> \/ S.raised # "none"
    THEN S
    ELSE ResumeRows(ResumeRow(S, Head(order), Head(order) = failAt, t),
                    Tail(order), failAt, t)

\* new_members: the members of the tracked channels that have no Session.
new_members(S) ==
    {m \in Members :
        /\ guild_resolvable
        /\ voice[m].channel # NoChannel
        /\ voice[m].channel \notin untracked
        /\ S.sessions[m] = 0}

\* for member in new_members: Session.start(member, member.voice)
RECURSIVE StartNewMembers(_, _, _, _)
StartNewMembers(S, order, new, t) ==
    IF order = <<>> \/ S.raised # "none"
    THEN S
    ELSE LET m == Head(order)
         IN StartNewMembers(IF m \in new THEN start(S, m, voice[m], t) ELSE S,
                            Tail(order), new, t)

\* The orders in which a query or a channel listing can return the members.
Orders ==
    {o \in [1..Cardinality(Members) -> Members] :
        \A i, j \in DOMAIN o : i # j => o[i] # o[j]}

(***************************************************************************)
(* Actions of the session tracker.                                         *)
(***************************************************************************)
SetEngine(S) ==
    /\ current_sessions' = S.current_sessions
    /\ sessions' = S.sessions
    /\ members_pending' = S.members_pending
    /\ objects' = S.objects
    /\ tasks' = S.tasks

Called(op, who, S) == [op |-> op, userid |-> who, raised |-> S.raised]

Launched == [op |-> "launch", userid |-> "None", raised |-> "none"]

\* The global blacklist and the guild's ignore list.
ListsInit ==
    /\ blacklist \in SUBSET {"u1"}
    /\ guild_blacklist \in SUBSET {"u1"}

SessionIdle ==
    /\ now = 0
    /\ voice = [m \in Members |-> NoVoice]
    /\ guild_resolvable = TRUE
    /\ remaining_study_today = [m \in Members |-> 1]
    /\ current_sessions = [m \in Members |-> <<>>]
    /\ sessions = [m \in Members |-> 0]
    /\ members_pending = [m \in Members |-> 0]
    /\ objects = [m \in Members |-> [i \in SessionIds |-> NoObject]]
    /\ tasks = [m \in Members |-> [i \in TaskIds |-> NoTask]]
    /\ init_pc = "launch"
    /\ module_ready = TRUE
    /\ handler_attached = FALSE
    /\ last_call = Launched

SessionInit ==
    /\ now = 0
    /\ voice = [m \in Members |-> NoVoice]
    /\ guild_resolvable = TRUE
    /\ remaining_study_today = [m \in Members |-> 1]
    /\ current_sessions = [m \in Members |-> <<>>]
    /\ sessions = [m \in Members |-> 0]
    /\ members_pending = [m \in Members |-> 0]
    /\ objects = [m \in Members |-> [i \in SessionIds |-> NoObject]]
    /\ tasks = [m \in Members |-> [i \in TaskIds |-> NoTask]]
    /\ init_pc = "launch"
    /\ module_ready = TRUE
    /\ handler_attached = FALSE
    /\ last_call = Launched

\* The clock advances.
Tick ==
    /\ now < MaxTime
    /\ now' = now + 1
    /\ UNCHANGED <<voice, guild_resolvable, blacklist, guild_blacklist,
                   remaining_study_today, current_sessions, sessions, members_pending,
                   objects, tasks, init_pc, module_ready, handler_attached, last_call>>
    /\ UNCHANGED non_session_vars

\* The member's daily budget runs out, or is extended (a new day, added time).
BudgetChange(m) ==
    /\ \E v \in {0, 1} :
          /\ v # remaining_study_today[m]
          /\ remaining_study_today' = [remaining_study_today EXCEPT ![m] = v]
    /\ UNCHANGED <<now, voice, guild_resolvable, blacklist, guild_blacklist,
                   current_sessions, sessions, members_pending, objects, tasks,
                   init_pc, module_ready, handler_attached, last_call>>
    /\ UNCHANGED non_session_vars

\* Mutant: the fatal error is logged and the handler attached all the same.
FatalError_Attach(S, failAt) ==
    /\ SetEngine(S)
    /\ module_ready' = FALSE
    /\ init_pc' = "aborted"
    /\ handler_attached' = TRUE
    /\ last_call' = Called("init", failAt, S)

\* The except branch of the loop over the rows: log, module.ready = False, return.
FatalError(S, failAt) ==
    /\ SetEngine(S)
    /\ module_ready' = FALSE
    /\ init_pc' = "aborted"
    /\ handler_attached' = handler_attached
    /\ last_call' = Called("init", failAt, S)

\* _init_session_tracker from its last await to its end: one uninterrupted run.
InitSessionTracker ==
    /\ init_pc = "launch"
    /\ \E order \in Orders, failAt \in Members \cup {"None"} :
          LET S1 == ResumeRows(Engine, order, failAt, now)
              S2 == StartNewMembers(S1, order, new_members(S1), now)
          IN IF S1.raised = "Exception"
             THEN FatalError(S1, failAt)
             ELSE /\ S1.raised = "none"
                  /\ S2.raised = "none"
                  /\ SetEngine(S2)
                  /\ module_ready' = module_ready
                  /\ init_pc' = "done"
                  /\ handler_attached' = TRUE
                  /\ last_call' = Called("init", "None", S2)
    /\ UNCHANGED <<now, voice, guild_resolvable, blacklist, guild_blacklist,
                   remaining_study_today>>
    /\ UNCHANGED non_session_vars

\* The member's voice state becomes after; the dispatcher runs if it is attached.
VoiceStateUpdate(m, after) ==
    /\ after # voice[m]
    /\ voice' = [voice EXCEPT ![m] = after]
    /\ IF handler_attached /\ guild_resolvable
       THEN LET S == session_voice_tracker(Engine, m, voice[m], after, now)
            IN /\ S.raised # "bound"
               /\ SetEngine(S)
               /\ last_call' = Called("voice_state_update", m, S)
       ELSE UNCHANGED <<current_sessions, sessions, members_pending, objects,
                        tasks, last_call>>
    /\ UNCHANGED <<now, guild_resolvable, blacklist, guild_blacklist,
                   remaining_study_today, init_pc, module_ready, handler_attached>>
    /\ UNCHANGED non_session_vars

\* The sleep of a _schedule_expiry coroutine of the member's object sid ends.
ExpiryFire(m, sid) ==
    /\ objects[m][sid].expiry > 0
    /\ LET S0 == [Engine EXCEPT !.objects[m][sid].expiry = @ - 1]
           S == IF StudyCapped(m) THEN finish(S0, m, sid) ELSE schedule_expiry(S0, m, sid)
       IN /\ SetEngine(S)
          /\ last_call' = Called("expiry", m, S)
    /\ UNCHANGED <<now, voice, guild_resolvable, blacklist, guild_blacklist,
                   remaining_study_today, init_pc, module_ready, handler_attached>>
    /\ UNCHANGED non_session_vars

\* The sleep of the member's _delayed_start task tid ends without a cancellation.
DelayedStartFire(m, tid) ==
    /\ tasks[m][tid].status = "sleeping"
    /\ LET S == delayed_start(Engine, m, tid, now)
       IN /\ S.raised # "bound"
          /\ SetEngine(S)
          /\ last_call' = Called("delayed_start", m, S)
    /\ UNCHANGED <<now, voice, guild_resolvable, blacklist, guild_blacklist,
                   remaining_study_today, init_pc, module_ready, handler_attached>>
    /\ UNCHANGED non_session_vars

\* The process stops and is launched again: the caches and tasks are gone, the
\* rows stay.  The guild may no longer be one the client is in.
Restart ==
    /\ init_pc # "launch"
    /\ guild_resolvable' \in BOOLEAN
    /\ sessions' = [m \in Members |-> 0]
    /\ members_pending' = [m \in Members |-> 0]
    /\ objects' = [m \in Members |-> [i \in SessionIds |-> NoObject]]
    /\ tasks' = [m \in Members |-> [i \in TaskIds |-> NoTask]]
    /\ init_pc' = "launch"
    /\ module_ready' = TRUE
    /\ handler_attached' = FALSE
    /\ last_call' = Launched
    /\ UNCHANGED <<now, voice, blacklist, guild_blacklist, remaining_study_today,
                   current_sessions>>
    /\ UNCHANGED non_session_vars

\* Another module calls Session.start(member, member.voice).
CallStart(m) ==
    /\ init_pc = "done"
    /\ voice[m].channel # NoChannel
    /\ LET S == start(Engine, m, voice[m], now)
       IN /\ S.raised # "bound"
          /\ SetEngine(S)
          /\ last_call' = Called("start", m, S)
    /\ UNCHANGED <<now, voice, guild_resolvable, blacklist, guild_blacklist,
                   remaining_study_today, init_pc, module_ready, handler_attached>>
    /\ UNCHANGED non_session_vars

(***************************************************************************)
(* Voice scanner: time_tracker.py.                                         *)
(***************************************************************************)
\* client.guilds, in the order the scanner loop visits them.
Guilds == <<"g1", "g2">>

GuildIds == {Guilds[i] : i \in DOMAIN Guilds}

NoScan == [guild |-> "None", interval |-> <<>>, outcome |-> "none"]

\* Mutant: the ceiling is 30 minutes.
Discarded_HalfHour(interval) == interval > 60 * 30

\* Discard if it has been more than 20 minutes
Discarded(interval) == interval > 60 * 20

\* The members of the guild's voice channels that are not untracked.
channel_members(g) ==
    {m \in Members :
        /\ scan_voice[g][m].channel # NoChannel
        /\ scan_voice[g][m].channel \notin untracked}

\* The members the credit loop of _scan does not skip.
Credited(g, m) ==
    /\ m \in channel_members(g)
    /\ m \notin bots
    /\ ~(m \in blacklist \/ m \in guild_blacklist)

\* hour_reward of the credit loop
hour_reward_Base(g, m) == guild_hourly_reward[g]

hour_reward(g, m) ==
    IF scan_voice[g][m].self_stream \/ scan_voice[g][m].self_video
    THEN guild_hourly_reward[g] + guild_hourly_live_bonus[g]
    ELSE guild_hourly_reward[g]

\* The credit loop of _scan over the members in the given order; it stops
\* where an exception is raised (failAt).  L is [time, coins] of the guild.
RECURSIVE CreditLoop(_, _, _, _, _)
CreditLoop(L, g, order, interval, failAt) ==
    IF order = <<>>
    THEN [L EXCEPT !.raised = FALSE]
    ELSE LET m == Head(order) IN
         IF ~Credited(g, m)
         THEN CreditLoop(L, g, Tail(order), interval, failAt)
         ELSE IF m = failAt
         THEN [L EXCEPT !.raised = TRUE]
         ELSE CreditLoop([L EXCEPT !.time[m] = @ + interval,
                                   !.coins[m] = @ + hour_reward(g, m) * interval],
                         g, Tail(order), interval, failAt)

ScanIdle ==
    /\ time = 0
    /\ last_scan = [g \in GuildIds |-> <<>>]
    /\ scan_pc = 0
    /\ scan_voice = [g \in GuildIds |-> [m \in Members |-> NoVoice]]
    /\ bots = {}
    /\ guild_hourly_reward = [g \in GuildIds |-> 0]
    /\ guild_hourly_live_bonus = [g \in GuildIds |-> 0]
    /\ lion_time = [g \in GuildIds |-> [m \in Members |-> 0]]
    /\ lion_coins = [g \in GuildIds |-> [m \in Members |-> 0]]
    /\ scan_result = NoScan

ScanInit ==
    /\ time = 0
    /\ last_scan = [g \in GuildIds |-> <<>>]
    /\ scan_pc = 0
    /\ scan_voice \in [GuildIds -> [Members -> {NoVoice}]]
    /\ bots \in SUBSET {"u2"}
    /\ guild_hourly_reward = [g \in GuildIds |-> 6]
    /\ guild_hourly_live_bonus \in [GuildIds -> {12}]
    /\ lion_time = [g \in GuildIds |-> [m \in Members |-> 0]]
    /\ lion_coins = [g \in GuildIds |-> [m \in Members |-> 0]]
    /\ scan_result = NoScan

\* Time passes.
ScanTick ==
    /\ time < MaxScanTime
    /\ time' = time + 1
    /\ UNCHANGED <<last_scan, scan_pc, scan_voice, bots, guild_hourly_reward,
                   guild_hourly_live_bonus, lion_time, lion_coins, scan_result>>
    /\ UNCHANGED non_scan_vars

\* A member of a guild joins, leaves or moves, or changes the live flags.
ScanVoiceChange(g, m, after) ==
    /\ after # scan_voice[g][m]
    /\ scan_voice' = [scan_voice EXCEPT ![g][m] = after]
    /\ UNCHANGED <<time, last_scan, scan_pc, bots, guild_hourly_reward,
                   guild_hourly_live_bonus, lion_time, lion_coins, scan_result>>
    /\ UNCHANGED non_scan_vars

\* _study_tracker: the sleep before a round over the guilds ends.
ScanWake ==
    /\ scan_pc = 0
    /\ scan_pc' = 1
    /\ UNCHANGED <<time, last_scan, scan_voice, bots, guild_hourly_reward,
                   guild_hourly_live_bonus, lion_time, lion_coins, scan_result>>
    /\ UNCHANGED non_scan_vars

\* _study_tracker: where the loop stands after _scan(guild) returned or raised;
\* 0 is the sleep before the next round.
next_guild_Dies(pc, raised) ==
    IF raised THEN Len(Guilds) + 1 ELSE IF pc = Len(Guilds) THEN 0 ELSE pc + 1

next_guild(pc, raised) == IF pc = Len(Guilds) THEN 0 ELSE pc + 1

\* _study_tracker: one iteration of the loop over the guilds: _scan(guild),
\* with any exception of it caught and logged.
ScanGuild ==
    /\ scan_pc \in DOMAIN Guilds
    /\ LET g == Guilds[scan_pc]
           last == last_scan[g]
           interval == (time - last[1]) * SecondsPerTick
       IN /\ last_scan' = [last_scan EXCEPT ![g] = <<time>>]
          /\ IF last = <<>>
             THEN /\ UNCHANGED <<lion_time, lion_coins>>
                  /\ scan_result' = [guild |-> g, interval |-> <<>>, outcome |-> "first"]
             ELSE IF Discarded(interval)
             THEN /\ UNCHANGED <<lion_time, lion_coins>>
                  /\ scan_result' =
                        [guild |-> g, interval |-> <<interval>>, outcome |-> "discarded"]
             ELSE \E order \in Orders, failAt \in Members \cup {"None"} :
                     LET L == CreditLoop([time |-> lion_time[g], coins |-> lion_coins[g],
                                          raised |-> FALSE],
                                         g, order, interval, failAt)
                     IN /\ lion_time' = [lion_time EXCEPT ![g] = L.time]
                        /\ lion_coins' = [lion_coins EXCEPT ![g] = L.coins]
                        /\ scan_result' =
                              [guild |-> g, interval |-> <<interval>>,
                               outcome |-> IF L.raised THEN "raised" ELSE "credited"]
    /\ scan_pc' = next_guild(scan_pc, scan_result'.outcome = "raised")
    /\ UNCHANGED <<time, scan_voice, bots, guild_hourly_reward, guild_hourly_live_bonus>>
    /\ UNCHANGED non_scan_vars

ScanNext ==
    \/ ScanTick
    \/ ScanWake
    \/ ScanGuild
    \/ \E m \in Members, after \in ScanVoice : ScanVoiceChange("g1", m, after)

(***************************************************************************)
(* Scheduled sessions: commands.py (cmd_rooms, ensure_exclusive).          *)
(* The clock `now` counts hours here; one guild.                           *)
(***************************************************************************)
\* The start times on offer (start_time + n hours, n in range(1, 25)).
Hours == {1, 2}
\* The values of the accountability_price setting.
Prices == {1, 2}
\* The command contexts (ctx) that can be alive at once.
Ctxs == {"c1", "c2"}
NoCtx == "None"
\* The holder of room_lock that is not a command context.
Sweep == "sweep"
\* ctx.alion.coins when the bot starts.
StartCoins == 3

\* A context that runs no command.
NoFlow ==
    [pc |-> "idle", command |-> "none", author |-> "None", times |-> {},
     chosen |-> {}, cost |-> 0, balance |-> 0, deleted |-> <<>>, outcome |-> "none"]

\* AGuild.cache[guildid].upcoming_slot: the TimeSlot of the next hour.
\* data: the slot row is loaded; channel: 0 while the room does not exist.
NewSlot(h) ==
    [start_time |-> h, data |-> FALSE, channel |-> 0, members |-> {},
     opens |-> 0, created |-> 0]

RECURSIVE SumSeq(_)
SumSeq(s) == IF s = <<>> THEN 0 ELSE Head(s) + SumSeq(Tail(s))

RECURSIVE RowsOf(_, _, _)
\* The 'paid' column of the member's rows on the slots of hs, in slot order.
RowsOf(rows, m, hs) ==
    IF hs = {} THEN <<>>
    ELSE LET h == Min(hs) IN rows[m][h] \o RowsOf(rows, m, hs \ {h})

\* (time - utc_now()).total_seconds() > 660
LeadOk(h, t) == (h - t) * 3600 > 660

\* accountability_member_info.select_where(userid, start_at=GEQ(utc_now()))
joined_rows(m) == {h \in Hours : accountability_members[m][h] # <<>> /\ h >= now}

\* The times of the booking menu.
times(m) == {h \in Hours : h \notin joined_rows(m) /\ LeadOk(h, now)}

\* cost = len(to_book) * ctx.guild_settings.accountability_price.value
cost_Flat(to_book, price) == price
cost_of(to_book, price) == Cardinality(to_book) * price

\* sum(row[2] for row in deleted)
refund_CurrentPrice(deleted) == Len(deleted) * accountability_price
refund_of(deleted) == SumSeq(deleted)

\* accountability_members.delete_where(userid=..., slotid=slotids): the rows left.
delete_where_AnyUser(rows, m, to_cancel) ==
    [x \in Members |-> [h \in Hours |-> IF h \in to_cancel THEN <<>> ELSE rows[x][h]]]
delete_where(rows, m, to_cancel) ==
    [rows EXCEPT ![m] = [h \in Hours |-> IF h \in to_cancel THEN <<>> ELSE @[h]]]

\* TimeSlot._refresh: reload the slot row and the members from the tables.
refresh(slot, rooms, rows) ==
    [slot EXCEPT !.data = rooms[slot.start_time].exists,
                 !.channel = rooms[slot.start_time].channelid,
                 !.members = {m \in Members : rows[m][slot.start_time] # <<>>}]

\* The finally clause of ensure_exclusive.
ExitGuard_Always(c) == [user_locks EXCEPT ![ctxs[c].author] = NoCtx]

ExitGuard(c) ==
    IF user_locks[ctxs[c].author] = c
    THEN [user_locks EXCEPT ![ctxs[c].author] = NoCtx]
    ELSE user_locks

\* The command returns or raises.
Ended(c, how) == [ctxs[c] EXCEPT !.pc = "done", !.times = {}, !.outcome = how]

BookIdle ==
    /\ coins = [m \in Members |-> StartCoins]
    /\ accountability_price = 1
    /\ accountability_rooms = [h \in Hours |-> [exists |-> FALSE, channelid |-> 0]]
    /\ accountability_members = [m \in Members |-> [h \in Hours |-> <<>>]]
    /\ user_locks = [m \in Members |-> NoCtx]
    /\ ctxs = [c \in Ctxs |-> NoFlow]
    /\ room_lock = NoCtx
    /\ upcoming_slot = NewSlot(1)
    /\ sweep_pc = "idle"

\* any(time < utc_now() for time in selection)
running_All(selection, t) == \A h \in selection : h < t

running(selection, t) == \E h \in selection : h < t

\* The same, after u2 has booked the hour 2 for 1 coin.
BookInit ==
    /\ coins = [m \in Members |-> IF m = "u2" THEN StartCoins - 1 ELSE StartCoins]
    /\ accountability_price \in Prices
    /\ accountability_rooms = [h \in Hours |-> [exists |-> h = 2, channelid |-> 0]]
    /\ accountability_members =
           [m \in Members |-> [h \in Hours |-> IF m = "u2" /\ h = 2 THEN <<1>> ELSE <<>>]]
    /\ user_locks = [m \in Members |-> NoCtx]
    /\ ctxs = [c \in Ctxs |-> NoFlow]
    /\ room_lock = NoCtx
    /\ upcoming_slot = NewSlot(1)
    /\ sweep_pc = "idle"

\* cmd_rooms up to the menu: `schedule book` or `schedule cancel` by member m.
StartFlow(c, m, cmd) ==
    /\ ctxs[c].pc \in {"idle", "done"}
    /\ cmd = "cancel" => joined_rows(m) # {}
    /\ ctxs' = [ctxs EXCEPT ![c] =
                   [NoFlow EXCEPT !.pc = "menu", !.command = cmd, !.author = m,
                                  !.times = IF cmd = "book" THEN times(m)
                                            ELSE joined_rows(m)]]
    /\ UNCHANGED <<coins, accountability_price, accountability_rooms,
                   accountability_members, user_locks, room_lock, upcoming_slot,
                   sweep_pc>>
    /\ UNCHANGED non_book_vars

\* ensure_exclusive, `task.cancel()` for each task of the popped context: the
\* context stops where it is suspended, its CancelledError is still to be raised.
cancel_tasks_Discard(old) == ctxs

cancel_tasks(old) ==
    [x \in Ctxs |-> IF x = old THEN [ctxs[old] EXCEPT !.pc = "cancelled"] ELSE ctxs[x]]

\* ensure_exclusive up to its yield: the author's previous context is popped
\* and cancelled, and this context takes its place.
EnterGuard(c) ==
    /\ ctxs[c].pc = "menu"
    /\ LET m == ctxs[c].author
           old == user_locks[m]
       IN /\ ctxs' = [cancel_tasks(old) EXCEPT ![c].pc = "wait"]
          /\ user_locks' = [user_locks EXCEPT ![m] = c]
    /\ UNCHANGED <<coins, accountability_price, accountability_rooms,
                   accountability_members, room_lock, upcoming_slot, sweep_pc>>
    /\ UNCHANGED non_book_vars

\* The CancelledError reaches the cancelled context: `async with room_lock`
\* releases the lock if the context holds it, and the finally clause of
\* ensure_exclusive runs.
CancelDelivered(c) ==
    /\ ctxs[c].pc = "cancelled"
    /\ ctxs' = [ctxs EXCEPT ![c] = Ended(c, "CancelledError")]
    /\ user_locks' = ExitGuard(c)
    /\ room_lock' = IF room_lock = c THEN NoCtx ELSE room_lock
    /\ UNCHANGED <<coins, accountability_price, accountability_rooms,
                   accountability_members, upcoming_slot, sweep_pc>>
    /\ UNCHANGED non_book_vars

\* wait_for times out, or the reply is 'c'.
Dismiss(c) ==
    /\ ctxs[c].pc = "wait"
    /\ ctxs' = [ctxs EXCEPT ![c] = Ended(c, "dismissed")]
    /\ user_locks' = ExitGuard(c)
    /\ UNCHANGED <<coins, accountability_price, accountability_rooms,
                   accountability_members, room_lock, upcoming_slot, sweep_pc>>
    /\ UNCHANGED non_book_vars

\* The reply to the booking menu selects to_book (the valid indices only), and
\* the command runs on to its next suspension point or to its end.
BookReply(c, to_book) ==
    /\ ctxs[c].pc = "wait"
    /\ ctxs[c].command = "book"
    /\ to_book \subseteq ctxs[c].times
    /\ LET m == ctxs[c].author
           price == accountability_price
           cost == cost_of(to_book, price)
           slot == upcoming_slot
           \* accountability_rooms: find the slot rows, insert the missing ones
           rooms == [h \in Hours |->
                        IF h \in to_book
                        THEN [accountability_rooms[h] EXCEPT !.exists = TRUE]
                        ELSE accountability_rooms[h]]
           \* accountability_members.insert_many(slotid, userid, paid)
           rows == [accountability_members EXCEPT ![m] =
                        [h \in Hours |-> IF h \in to_book THEN Append(@[h], price)
                                         ELSE @[h]]]
           flow == [ctxs[c] EXCEPT !.chosen = to_book, !.cost = cost,
                                   !.balance = coins[m]]
           Fail(how) ==
               /\ ctxs' = [ctxs EXCEPT ![c] = [Ended(c, how) EXCEPT !.chosen = to_book]]
               /\ user_locks' = ExitGuard(c)
               /\ UNCHANGED <<coins, accountability_rooms, accountability_members,
                              upcoming_slot>>
       IN IF to_book = {} THEN Fail("InvalidSelection")
          ELSE IF running(to_book, now) THEN Fail("SlotRunning")
          ELSE IF cost > coins[m] THEN Fail("InsufficientFunds")
          ELSE /\ accountability_rooms' = rooms
               /\ accountability_members' = rows
               /\ IF slot.start_time \in to_book
                  THEN IF ~slot.data
                       THEN \* slot._refresh(); await slot.open()
                            /\ upcoming_slot' =
                                   [refresh(slot, rooms, rows) EXCEPT !.opens = @ + 1]
                            /\ ctxs' = [ctxs EXCEPT ![c] = [flow EXCEPT !.pc = "open"]]
                            /\ UNCHANGED <<coins, user_locks>>
                       ELSE /\ upcoming_slot' = [slot EXCEPT !.members = @ \cup {m}]
                            /\ IF slot.channel = 0
                               THEN \* slot.channel is None
                                    /\ ctxs' = [ctxs EXCEPT ![c] =
                                           [flow EXCEPT !.pc = "done", !.times = {},
                                                        !.outcome = "AttributeError"]]
                                    /\ user_locks' = ExitGuard(c)
                                    /\ UNCHANGED coins
                               ELSE \* await slot.channel.set_permissions(...)
                                    /\ ctxs' = [ctxs EXCEPT ![c] =
                                                   [flow EXCEPT !.pc = "perms"]]
                                    /\ UNCHANGED <<coins, user_locks>>
                  ELSE \* ctx.alion.addCoins(-cost)
                       /\ coins' = [coins EXCEPT ![m] = @ - cost]
                       /\ ctxs' = [ctxs EXCEPT ![c] =
                              [flow EXCEPT !.pc = "done", !.times = {},
                                           !.outcome = "booked"]]
                       /\ user_locks' = ExitGuard(c)
                       /\ UNCHANGED upcoming_slot
    /\ UNCHANGED <<accountability_price, room_lock, sweep_pc>>
    /\ UNCHANGED non_book_vars

\* slot.open() returns the new room, and the slot row records it; the command
\* is suspended again in slot.update_status().
OpenReturn(c) ==
    /\ ctxs[c].pc = "open"
    /\ LET room == upcoming_slot.created + 1
       IN /\ upcoming_slot' = [upcoming_slot EXCEPT !.channel = room, !.created = room]
          /\ accountability_rooms' =
                 [accountability_rooms EXCEPT ![upcoming_slot.start_time].channelid = room]
    /\ ctxs' = [ctxs EXCEPT ![c].pc = "status"]
    /\ UNCHANGED <<coins, accountability_price, accountability_members, user_locks,
                   room_lock, sweep_pc>>
    /\ UNCHANGED non_book_vars

\* set_permissions and update_status return: the booking is paid for.
BookReturn(c) ==
    /\ ctxs[c].pc \in {"perms", "status"}
    /\ coins' = [coins EXCEPT ![ctxs[c].author] = @ - ctxs[c].cost]
    /\ ctxs' = [ctxs EXCEPT ![c] = Ended(c, "booked")]
    /\ user_locks' = ExitGuard(c)
    /\ UNCHANGED <<accountability_price, accountability_rooms, accountability_members,
                   room_lock, upcoming_slot, sweep_pc>>
    /\ UNCHANGED non_book_vars

\* The body of `async with room_lock` of the cancel command, entered by a
\* context that has just taken the lock.
CancelSection(c, to_cancel) ==
    LET m == ctxs[c].author
        slot == upcoming_slot
        \* deleted = accountability_members.delete_where(userid, slotid=slotids)
        deleted == RowsOf(accountability_members, m, to_cancel)
        flow == [ctxs[c] EXCEPT !.chosen = to_cancel, !.deleted = deleted]
    IN /\ accountability_members' = delete_where(accountability_members, m, to_cancel)
       /\ IF slot.data /\ slot.start_time \in to_cancel
          THEN \* the slot has opened: await update_status() with the lock held
               /\ upcoming_slot' = [slot EXCEPT !.members = @ \ {m}]
               /\ ctxs' = [ctxs EXCEPT ![c] = [flow EXCEPT !.pc = "cperms"]]
               /\ room_lock' = c
               /\ UNCHANGED <<coins, user_locks>>
          ELSE \* ctx.alion.addCoins(sum(row[2] for row in deleted))
               /\ coins[m] + refund_of(deleted) <= MaxCoins
               /\ coins' = [coins EXCEPT ![m] = @ + refund_of(deleted)]
               /\ ctxs' = [ctxs EXCEPT ![c] =
                      [flow EXCEPT !.pc = "done", !.times = {}, !.outcome = "cancelled"]]
               /\ user_locks' = ExitGuard(c)
               /\ room_lock' = NoCtx
               /\ UNCHANGED upcoming_slot

\* The reply to the cancel menu selects to_cancel.
CancelReply(c, to_cancel) ==
    /\ ctxs[c].pc = "wait"
    /\ ctxs[c].command = "cancel"
    /\ to_cancel \subseteq ctxs[c].times
    /\ LET Fail(how) ==
               /\ ctxs' = [ctxs EXCEPT ![c] = [Ended(c, how) EXCEPT !.chosen = to_cancel]]
               /\ user_locks' = ExitGuard(c)
               /\ UNCHANGED <<coins, accountability_members, room_lock, upcoming_slot>>
       IN IF to_cancel = {} THEN Fail("InvalidSelection")
          ELSE IF running(to_cancel, now) THEN Fail("SlotRunning")
          ELSE IF room_lock = NoCtx THEN CancelSection(c, to_cancel)
          ELSE \* async with room_lock: wait for the lock
               /\ ctxs' = [ctxs EXCEPT ![c] =
                              [ctxs[c] EXCEPT !.pc = "lock", !.chosen = to_cancel]]
               /\ UNCHANGED <<coins, accountability_members, user_locks, room_lock,
                              upcoming_slot>>
    /\ UNCHANGED <<accountability_price, accountability_rooms, sweep_pc>>
    /\ UNCHANGED non_book_vars

\* The lock is released to a waiting cancel command.
LockAcquired(c) ==
    /\ ctxs[c].pc = "lock"
    /\ room_lock = NoCtx
    /\ CancelSection(c, ctxs[c].chosen)
    /\ UNCHANGED <<accountability_price, accountability_rooms, sweep_pc>>
    /\ UNCHANGED non_book_vars

\* update_status returns: the lock is released and the member refunded.
CancelReturn(c) ==
    /\ ctxs[c].pc = "cperms"
    /\ coins[ctxs[c].author] + refund_of(ctxs[c].deleted) <= MaxCoins
    /\ coins' = [coins EXCEPT ![ctxs[c].author] = @ + refund_of(ctxs[c].deleted)]
    /\ ctxs' = [ctxs EXCEPT ![c] = Ended(c, "cancelled")]
    /\ user_locks' = ExitGuard(c)
    /\ room_lock' = NoCtx
    /\ UNCHANGED <<accountability_price, accountability_rooms, accountability_members,
                   upcoming_slot, sweep_pc>>
    /\ UNCHANGED non_book_vars

\* The accountability_price setting is changed.
PriceChange(p) ==
    /\ p # accountability_price
    /\ accountability_price' = p
    /\ UNCHANGED <<coins, accountability_rooms, accountability_members, user_locks,
                   ctxs, room_lock, upcoming_slot, sweep_pc>>
    /\ UNCHANGED non_book_vars

\* The scheduled sweep finds that the upcoming slot's time has arrived and that
\* its row has no room yet: under the room lock, it reloads the slot and opens it.
SweepOpen ==
    /\ sweep_pc = "idle"
    /\ room_lock = NoCtx
    /\ now >= upcoming_slot.start_time
    /\ accountability_rooms[upcoming_slot.start_time].exists
    /\ accountability_rooms[upcoming_slot.start_time].channelid = 0
    /\ room_lock' = Sweep
    /\ upcoming_slot' =
           [refresh(upcoming_slot, accountability_rooms, accountability_members)
               EXCEPT !.opens = @ + 1]
    /\ sweep_pc' = "open"
    /\ UNCHANGED <<coins, accountability_price, accountability_rooms,
                   accountability_members, user_locks, ctxs>>
    /\ UNCHANGED non_book_vars

\* The sweep's slot.open() returns: the room is recorded and the lock released.
SweepReturn ==
    /\ sweep_pc = "open"
    /\ LET room == upcoming_slot.created + 1
       IN /\ upcoming_slot' = [upcoming_slot EXCEPT !.channel = room, !.created = room]
          /\ accountability_rooms' =
                 [accountability_rooms EXCEPT ![upcoming_slot.start_time].channelid = room]
    /\ room_lock' = NoCtx
    /\ sweep_pc' = "idle"
    /\ UNCHANGED <<coins, accountability_price, accountability_members, user_locks, ctxs>>
    /\ UNCHANGED non_book_vars

\* What the commands and the sweep do once a command has started.
FlowNext ==
    \/ \E c \in Ctxs : EnterGuard(c)
    \/ \E c \in Ctxs : Dismiss(c)
    \/ \E c \in Ctxs, to_book \in SUBSET Hours : BookReply(c, to_book)
    \/ \E c \in Ctxs : OpenReturn(c)
    \/ \E c \in Ctxs : BookReturn(c)
    \/ \E c \in Ctxs, to_cancel \in SUBSET Hours : CancelReply(c, to_cancel)
    \/ \E c \in Ctxs : LockAcquired(c)
    \/ \E c \in Ctxs : CancelReturn(c)
    \/ SweepOpen
    \/ SweepReturn

(***************************************************************************)
(* Specifications.                                                         *)
(***************************************************************************)
ScanSpecInit == ListsInit /\ ScanInit /\ SessionIdle /\ BookIdle

ScanSpec == ScanSpecInit /\ [][ScanNext]_vars

\* One member booking in one context and cancelling in another, while the
\* clock and the price change.
BookSpecInit ==
    /\ blacklist = {}
    /\ guild_blacklist = {}
    /\ SessionIdle
    /\ ScanIdle
    /\ BookInit

BookNext ==
    \/ Tick
    \/ \E p \in Prices : PriceChange(p)
    \/ StartFlow("c1", "u1", "book")
    \/ StartFlow("c2", "u1", "cancel")
    \/ \E c \in Ctxs : CancelDelivered(c)
    \/ FlowNext

BookSpec == BookSpecInit /\ [][BookNext]_vars

\* Two members: u1 booking, u2 booking and cancelling, around the start of the
\* upcoming slot.
RaceSpecInit ==
    /\ blacklist = {}
    /\ guild_blacklist = {}
    /\ SessionIdle
    /\ ScanIdle
    /\ BookIdle

RaceNext ==
    \/ Tick
    \/ StartFlow("c1", "u1", "book")
    \/ \E cmd \in {"book", "cancel"} : StartFlow("c2", "u2", cmd)
    \/ FlowNext

RaceSpec == RaceSpecInit /\ [][RaceNext]_vars

\* One member with two commands that overlap: u1 books in c1, and books or
\* cancels in c2.
GuardSpecInit ==
    /\ blacklist = {}
    /\ guild_blacklist = {}
    /\ SessionIdle
    /\ ScanIdle
    /\ BookIdle

GuardNext ==
    \/ Tick
    \/ StartFlow("c1", "u1", "book")
    \/ \E cmd \in {"book", "cancel"} : StartFlow("c2", "u1", cmd)
    \/ \E c \in Ctxs : CancelDelivered(c)
    \/ FlowNext

GuardSpec == GuardSpecInit /\ [][GuardNext]_vars

\* One member who books in c1 and cancels in both contexts, so that two
\* cancel commands overlap.
CancelSpecInit ==
    /\ blacklist = {}
    /\ guild_blacklist = {}
    /\ SessionIdle
    /\ ScanIdle
    /\ BookIdle

CancelNext ==
    \/ Tick
    \/ \E cmd \in {"book", "cancel"} : StartFlow("c1", "u1", cmd)
    \/ StartFlow("c2", "u1", "cancel")
    \/ \E c \in Ctxs : CancelDelivered(c)
    \/ FlowNext

CancelSpec == CancelSpecInit /\ [][CancelNext]_vars

Init == ListsInit /\ SessionInit /\ ScanIdle /\ BookIdle

\* The life cycle of one member's sessions, driven by the tracker's own events.
Next ==
    \/ InitSessionTracker
    \/ Restart
    \/ BudgetChange("u1")
    \/ \E after \in VideoVoice : VoiceStateUpdate("u1", after)
    \/ \E sid \in SessionIds : ExpiryFire("u1", sid)
    \/ \E tid \in TaskIds : DelayedStartFire("u1", tid)

Spec == Init /\ [][Next]_vars

\* The same life cycle on an event loop that runs every coroutine whose sleep
\* has ended: an expiry that can fire does fire.
ExpirySpec ==
    /\ Init
    /\ [][Next]_vars
    /\ \A sid \in SessionIds : WF_vars(ExpiryFire("u1", sid))

\* The same life cycle on an event loop that runs every pending start whose
\* sleep has ended.
PendingSpec ==
    /\ Init
    /\ [][Next]_vars
    /\ \A tid \in TaskIds : WF_vars(DelayedStartFire("u1", tid))

\* The same, with Session.start also called from outside the tracker.
ApiNext ==
    \/ Next
    \/ CallStart("u1")

ApiSpec == Init /\ [][ApiNext]_vars

\* Two members joining, moving and leaving, with restarts in between.
StartupNext ==
    \/ InitSessionTracker
    \/ Restart
    \/ \E m \in Members, after \in PlainVoice : VoiceStateUpdate(m, after)

StartupSpec == Init /\ [][StartupNext]_vars

\* One member's live flags against the clock.
LiveNext ==
    \/ Tick
    \/ InitSessionTracker
    \/ Restart
    \/ \E after \in VoiceStates : VoiceStateUpdate("u1", after)

LiveSpec == Init /\ [][LiveNext]_vars

(***************************************************************************)
(* Properties.                                                             *)
(***************************************************************************)
HasRow(m) == current_sessions[m] # <<>>

Row(m) == current_sessions[m][1]

\* A step that calls Session.start(m, ...) from outside the dispatcher.
StartCallStep(m) ==
    \/ CallStart(m)
    \/ \E tid \in TaskIds : DelayedStartFire(m, tid)

\* C1: a member has at most one entry in the Session Store, and Session.start
\* for a member who has one raises ValueError and leaves the entry, the
\* Session object, the open row and the Pending registry as they were.
C1_StartFailsWhenActive ==
    [][\A m \in Members :
          (sessions[m] # 0 /\ StartCallStep(m)) =>
             /\ last_call'.raised = "ValueError"
             /\ sessions'[m] = sessions[m]
             /\ objects'[m] = objects[m]
             /\ current_sessions' = current_sessions
             /\ members_pending' = members_pending]_vars

C1_Witness ==
    /\ last_call.op \in {"start", "delayed_start"}
    /\ last_call.raised = "ValueError"
    /\ sessions["u1"] # 0
    /\ HasRow("u1")

\* The voice state the client observes for m: none in a guild it is not in.
Observed(m) == IF guild_resolvable THEN voice[m] ELSE NoVoice

\* The iteration of _init_session_tracker over the open row of m, in a run
\* that ends without an exception.
ReconcileStep(m) ==
    /\ init_pc = "launch"
    /\ init_pc' = "done"
    /\ HasRow(m)

\* C8: startup resumes every open row whose member is present in the row's
\* room (cache entry, expiry scheduled, sub-timers from the current flags),
\* finishes every other open row, and leaves no open row without a cache entry.
C8_EveryRowReconciled ==
    [][\A m \in Members :
          ReconcileStep(m) =>
             /\ (Observed(m).channel = Row(m).channelid) =>
                   /\ sessions'[m] # 0
                   /\ objects'[m][sessions'[m]].expiry = 1
                   /\ HasRow(m)'
                   /\ Row(m)'.start_time = Row(m).start_time
                   /\ (Row(m)'.video_start # <<>>) = voice[m].self_video
                   /\ (Row(m)'.stream_start # <<>>) = voice[m].self_stream
                   /\ (Row(m)'.live_start # <<>>) =
                         (voice[m].self_video \/ voice[m].self_stream)
             /\ (Observed(m).channel # Row(m).channelid) =>
                   \/ ~HasRow(m)'
                   \/ Row(m)' = create_row(voice[m], now)
             /\ \A k \in Members : HasRow(k)' => sessions'[k] # 0]_vars

\* C9: the dispatcher is attached only by a startup that ran to its end; a
\* startup that met an exception leaves the module not ready and the
\* dispatcher unattached; no voice event is handled otherwise.
C9_HandlerOnlyAfterReconciliation ==
    /\ handler_attached => init_pc = "done"
    /\ init_pc = "aborted" => (~module_ready /\ ~handler_attached)
    /\ last_call.op = "voice_state_update" => init_pc = "done"

C9_Witness ==
    /\ init_pc = "aborted"
    /\ last_call.op = "init"
    /\ last_call.raised = "Exception"
    /\ \E m \in Members : sessions[m] # 0
    /\ \E m \in Members : HasRow(m) /\ sessions[m] = 0

\* A step in which save_live_status(voice'[m]) runs for m: a flag change in
\* the same channel with a session, or the resumption of the row at startup.
LiveStatusStep(m) ==
    \/ /\ handler_attached /\ guild_resolvable
       /\ sessions[m] # 0
       /\ voice'[m] # voice[m]
       /\ voice'[m].channel = voice[m].channel
    \/ /\ init_pc = "launch" /\ init_pc' = "done" /\ guild_resolvable
       /\ HasRow(m)
       /\ voice[m].channel = Row(m).channelid

\* C10: a sub-timer started with the session at t0 (start = t0, duration 0)
\* and updated at t0 + D with its flag off has duration D and no start;
\* for the video, the stream and the combined sub-timer.
C10_SubTimerDuration ==
    [][\A m \in Members :
          (HasRow(m) /\ LiveStatusStep(m)) =>
             LET r == Row(m)
                 q == Row(m)'
                 D == now - r.start_time
             IN /\ (r.video_start = <<r.start_time>> /\ r.video_duration = 0
                      /\ ~voice'[m].self_video)
                   => (q.video_duration = D /\ q.video_start = <<>>)
                /\ (r.stream_start = <<r.start_time>> /\ r.stream_duration = 0
                      /\ ~voice'[m].self_stream)
                   => (q.stream_duration = D /\ q.stream_start = <<>>)
                /\ (r.live_start = <<r.start_time>> /\ r.live_duration = 0
                      /\ ~voice'[m].self_video /\ ~voice'[m].self_stream)
                   => (q.live_duration = D /\ q.live_start = <<>>)]_vars

C10_Witness ==
    /\ last_call.op = "voice_state_update"
    /\ HasRow("u1")
    /\ now - Row("u1").start_time = 2
    /\ Row("u1").video_duration = 2 /\ Row("u1").video_start = <<>>
    /\ Row("u1").stream_duration = 2 /\ Row("u1").stream_start = <<>>
    /\ Row("u1").live_duration = 2 /\ Row("u1").live_start = <<>>

\* The step in which the scanner scans guild g with a last-scan timestamp.
ScanStep(g) ==
    /\ scan_pc \in DOMAIN Guilds
    /\ Guilds[scan_pc] = g
    /\ scan_pc' # scan_pc
    /\ last_scan[g] # <<>>

IntervalOf(g) == (time - last_scan[g][1]) * SecondsPerTick

IsLive(g, m) == scan_voice[g][m].self_stream \/ scan_voice[g][m].self_video

\* C7 as stated: a tick with an interval of 1800 seconds and an hourly rate
\* of 6 credits each present eligible member 1800 seconds and 3 coins.
C7_Tick1800Credits ==
    [][\A g \in GuildIds, m \in Members :
          (/\ ScanStep(g)
           /\ IntervalOf(g) = 1800
           /\ guild_hourly_reward[g] = 6
           /\ Credited(g, m)
           /\ ~IsLive(g, m)
           /\ scan_result'.outcome # "raised") =>
             /\ lion_time'[g][m] = lion_time[g][m] + 1800
             /\ lion_coins'[g][m] = lion_coins[g][m] + 3 * 3600]_vars

\* C7, amended: a tick with an interval of 1800 seconds is over the ceiling
\* of 20 minutes and credits nobody; a tick with an interval of 1200 seconds
\* and an hourly rate of 6 credits each present eligible member that is not
\* live 1200 seconds and 2 coins.
C7_Tick1800Discarded ==
    [][\A g \in GuildIds, m \in Members :
          ScanStep(g) =>
             /\ IntervalOf(g) = 1800 =>
                   /\ lion_time' = lion_time
                   /\ lion_coins' = lion_coins
                   /\ last_scan'[g] = <<time>>
             /\ (/\ IntervalOf(g) = 1200
                 /\ guild_hourly_reward[g] = 6
                 /\ Credited(g, m)
                 /\ ~IsLive(g, m)
                 /\ scan_result'.outcome # "raised") =>
                   /\ lion_time'[g][m] = lion_time[g][m] + 1200
                   /\ lion_coins'[g][m] = lion_coins[g][m] + 2 * 3600]_vars

C7_Witness ==
    /\ scan_result.guild = "g1"
    /\ scan_result.interval = <<1800>>
    /\ scan_result.outcome = "discarded"
    /\ Credited("g1", "u2")
    /\ ~IsLive("g1", "u2")
    /\ lion_time["g1"]["u2"] = 0

\* C13: an exception of the scan of one guild is caught: the loop goes on to
\* the next guild of the round, or to the sleep before the next round after
\* the last guild, and never stops.
C13_ScanExceptionCaught ==
    [][ /\ \A i \in DOMAIN Guilds :
              (scan_pc = i /\ scan_pc' # i /\ scan_result'.outcome = "raised") =>
                  /\ scan_result'.guild = Guilds[i]
                  /\ last_scan'[Guilds[i]] = <<time>>
                  /\ i < Len(Guilds) => scan_pc' = i + 1
                  /\ i = Len(Guilds) => scan_pc' = 0
        /\ scan_pc' \in 0 .. Len(Guilds)
      ]_vars

\* The scan of the first guild raised and the second guild is next.
C13_Witness ==
    /\ scan_result.guild = Guilds[1]
    /\ scan_result.outcome = "raised"
    /\ scan_pc = 2

(***************************************************************************)
(* Scheduled sessions.                                                     *)
(***************************************************************************)
\* The contexts suspended inside the slot section of their command: after the
\* rows were inserted or deleted, before the balance is updated.
InSection(c) == ctxs[c].pc \in {"open", "perms", "status", "cperms"}

\* The members holding a reservation on the slot of hour h.
Holders(h) == {m \in Members : accountability_members[m][h] # <<>>}

\* The number of the member's reservation rows.
RowCount(rows, m) == Len(RowsOf(rows, m, Hours))

\* The command of context c inserts its reservation rows in this step.
InsertStep(c) ==
    /\ ctxs[c].pc = "wait"
    /\ ctxs[c].command = "book"
    /\ accountability_members' # accountability_members

\* The command of context c ends in this step, with the given outcome.
EndStep(c, how) ==
    /\ ctxs[c].pc \notin {"idle", "done"}
    /\ ctxs'[c].pc = "done"
    /\ ctxs'[c].outcome = how

\* The booking of context c ends in this step without having booked.
AbortStep(c) ==
    /\ ctxs[c].command = "book"
    /\ ctxs[c].pc \notin {"idle", "done"}
    /\ ctxs'[c].pc = "done"
    /\ ctxs'[c].outcome # "booked"

\* The cancel command of context c deletes its rows in this step.
DeleteStep(c) ==
    /\ ctxs[c].command = "cancel"
    /\ ctxs[c].pc \in {"wait", "lock"}
    /\ ctxs'[c].pc = "cperms" \/ ctxs'[c].outcome = "cancelled"

\* C3: the booking path and the cancellation path run their slot section
\* holding the room lock, so no two commands are suspended inside it at once.
C3_SectionUnderRoomLock ==
    /\ \A c \in Ctxs : InSection(c) => room_lock = c
    /\ Cardinality({c \in Ctxs : InSection(c)}) <= 1

\* C2: slot.open() runs at most once for the upcoming slot and one room is
\* created for it; once no activation attempt is in progress, the room on the
\* slot row is that room and its members are the holders of a reservation.
C2_ActivationExactlyOnce ==
    /\ upcoming_slot.opens <= 1
    /\ upcoming_slot.created <= 1
    /\ ( /\ \A c \in Ctxs : ~InSection(c)
         /\ sweep_pc = "idle"
         /\ upcoming_slot.channel # 0 )
       => /\ accountability_rooms[upcoming_slot.start_time].channelid = upcoming_slot.channel
          /\ upcoming_slot.members = Holders(upcoming_slot.start_time)

\* C4: a booking of N slots inserts N reservation rows, one per slot and paid
\* at the price, and takes N times that price from the balance when it
\* completes; a booking that ends in any other way takes nothing, and a
\* balance goes down in no other step.
C4_BookingDebit ==
    [][/\ \A c \in Ctxs :
            LET m == ctxs[c].author
                to_book == ctxs'[c].chosen
            IN /\ InsertStep(c) =>
                    /\ RowCount(accountability_members', m)
                           = RowCount(accountability_members, m) + Cardinality(to_book)
                    /\ \A h \in Hours :
                           accountability_members'[m][h] =
                               IF h \in to_book
                               THEN Append(accountability_members[m][h],
                                           accountability_price)
                               ELSE accountability_members[m][h]
               /\ EndStep(c, "booked") =>
                    \A h \in to_book :
                        /\ accountability_members'[m][h] # <<>>
                        /\ coins'[m] = coins[m] - Cardinality(to_book)
                               * accountability_members'[m][h][Len(accountability_members'[m][h])]
               /\ AbortStep(c) => coins' = coins
       /\ \A m \in Members :
            coins'[m] < coins[m] =>
                \E c \in Ctxs : ctxs[c].author = m /\ EndStep(c, "booked")
      ]_vars

\* A booking of the two hours has completed and taken twice the price.
C4_Witness ==
    \E c \in Ctxs :
        /\ ctxs[c].pc = "done"
        /\ ctxs[c].outcome = "booked"
        /\ ctxs[c].chosen = Hours
        /\ \E p \in Prices : coins[ctxs[c].author] = ctxs[c].balance - 2 * p

\* C5: cancelling the slots S deletes the member's rows on the slots of S and
\* no other row, and credits the member the sum of 'paid' of the deleted rows,
\* whatever the price is now; rows and balances change in no other way.
C5_CancelRefund ==
    [][/\ \A c \in Ctxs :
            LET m == ctxs[c].author
                S == ctxs'[c].chosen
            IN /\ DeleteStep(c) =>
                    /\ S # {}
                    /\ \A h \in Hours :
                           accountability_members'[m][h] =
                               IF h \in S THEN <<>> ELSE accountability_members[m][h]
                    /\ \A x \in Members \ {m} :
                           accountability_members'[x] = accountability_members[x]
                    /\ ctxs'[c].deleted = RowsOf(accountability_members, m, S)
               /\ (ctxs[c].command = "cancel" /\ EndStep(c, "cancelled")) =>
                    /\ coins'[m] = coins[m] + SumSeq(ctxs'[c].deleted)
                    /\ \A x \in Members \ {m} : coins'[x] = coins[x]
       /\ \A m \in Members :
            /\ coins'[m] > coins[m] =>
                   \E c \in Ctxs : /\ ctxs[c].author = m
                                   /\ ctxs[c].command = "cancel"
                                   /\ EndStep(c, "cancelled")
            /\ \A h \in Hours :
                   Len(accountability_members'[m][h]) < Len(accountability_members[m][h])
                       => \E c \in Ctxs : /\ ctxs[c].author = m
                                          /\ DeleteStep(c)
                                          /\ h \in ctxs'[c].chosen
      ]_vars

\* A cancellation was refunded a 'paid' that is not the current price, and the
\* member keeps another reservation.
C5_Witness ==
    \E c \in Ctxs :
        /\ ctxs[c].pc = "done"
        /\ ctxs[c].outcome = "cancelled"
        /\ ctxs[c].deleted # <<>>
        /\ SumSeq(ctxs[c].deleted) # Len(ctxs[c].deleted) * accountability_price
        /\ \E h \in Hours : accountability_members[ctxs[c].author][h] # <<>>

\* C6: a member with balance B who books one slot at price p has balance B - p
\* and one reservation; cancelling it gives the balance B back and removes the
\* reservation; the slot row stays, and no step deletes a slot row.
C6_BookCancelRoundTrip ==
    [][/\ \A c \in Ctxs, h \in Hours :
            (EndStep(c, "booked") /\ ctxs'[c].chosen = {h}) =>
                \E p \in Prices :
                    /\ accountability_members'[ctxs[c].author][h] = <<p>>
                    /\ coins'[ctxs[c].author] = ctxs'[c].balance - p
       /\ \A c1, c2 \in Ctxs, h \in Hours :
            ( /\ ctxs[c1].pc = "done"
              /\ ctxs[c1].outcome = "booked"
              /\ ctxs[c1].chosen = {h}
              /\ ctxs[c2].author = ctxs[c1].author
              /\ ctxs[c2].command = "cancel"
              /\ EndStep(c2, "cancelled")
              /\ ctxs'[c2].chosen = {h}
              /\ coins[ctxs[c1].author] = ctxs[c1].balance - ctxs[c1].cost )
            => /\ coins'[ctxs[c1].author] = ctxs[c1].balance
               /\ accountability_members'[ctxs[c1].author][h] = <<>>
               /\ accountability_rooms'[h].exists
       /\ \A h \in Hours : accountability_rooms[h].exists => accountability_rooms'[h].exists
      ]_vars

\* A booking of one slot was cancelled after the price had changed: the balance
\* is back and the slot row is still there.
C6_Witness ==
    \E c1, c2 \in Ctxs, h \in Hours :
        /\ ctxs[c1].pc = "done" /\ ctxs[c1].outcome = "booked" /\ ctxs[c1].chosen = {h}
        /\ ctxs[c2].pc = "done" /\ ctxs[c2].outcome = "cancelled" /\ ctxs[c2].chosen = {h}
        /\ ctxs[c2].author = ctxs[c1].author
        /\ ctxs[c1].cost # accountability_price
        /\ coins[ctxs[c1].author] = ctxs[c1].balance
        /\ accountability_members[ctxs[c1].author][h] = <<>>
        /\ accountability_rooms[h].exists
        /\ accountability_rooms[h].channelid = 0

(***************************************************************************)
(* The guard of the interactive commands (ensure_exclusive).               *)
(***************************************************************************)
\* The command is suspended inside `with ensure_exclusive(ctx)` and has not
\* been cancelled.
InGuard(c) == ctxs[c].pc \in {"wait", "lock", "open", "perms", "status", "cperms"}

\* The command enters the guard.
GuardEnterStep(c) == ctxs[c].pc = "menu" /\ ctxs'[c].pc = "wait"

\* The command leaves the guard: its finally clause runs.
GuardLeaveStep(c) ==
    /\ InGuard(c) \/ ctxs[c].pc = "cancelled"
    /\ ctxs'[c].pc = "done"

\* C11: a member has at most one command in the guard, the registered one;
\* when a command enters the guard, the member's previously registered
\* command is cancelled where it waits and the new command is registered.
C11_OneFlowPerMember ==
    [][ /\ \A c \in Ctxs :
              GuardEnterStep(c) =>
                  LET m == ctxs[c].author
                      old == user_locks[m]
                  IN /\ user_locks'[m] = c
                     /\ old # NoCtx => ctxs'[old].pc = "cancelled"
        /\ \A m \in Members :
              {c \in Ctxs : ctxs'[c].author = m /\ InGuard(c)'} \subseteq {user_locks'[m]}
      ]_vars

C11_Witness ==
    \E c, d \in Ctxs :
        /\ c # d
        /\ ctxs[c].author = ctxs[d].author
        /\ ctxs[d].pc = "cancelled"
        /\ ctxs[c].pc = "wait"
        /\ user_locks[ctxs[c].author] = c

\* C12: a command that leaves the guard removes the member's entry if and
\* only if the entry is that command, a newer registration stays; a member
\* none of whose commands is in the guard has no entry.
C12_EntryRemovedByOwner ==
    [][ /\ \A c \in Ctxs :
              GuardLeaveStep(c) =>
                  LET m == ctxs[c].author
                  IN user_locks' = IF user_locks[m] = c
                                   THEN [user_locks EXCEPT ![m] = NoCtx]
                                   ELSE user_locks
        /\ \A m \in Members :
              (\A c \in Ctxs : ctxs'[c].author = m => ctxs'[c].pc \in {"menu", "done"})
                  => user_locks'[m] = NoCtx
      ]_vars

\* A cancelled command has left the guard and the newer one is still registered.
C12_Witness ==
    \E c, d \in Ctxs :
        /\ c # d
        /\ ctxs[c].author = ctxs[d].author
        /\ ctxs[d].pc = "done" /\ ctxs[d].outcome = "CancelledError"
        /\ InGuard(c)
        /\ user_locks[ctxs[c].author] = c

\* The command of context c handles the member's selection in this step.
ReplyStep(c, cmd) ==
    /\ ctxs[c].pc = "wait"
    /\ ctxs[c].command = cmd
    /\ ctxs'[c].pc \notin {"wait", "cancelled"}
    /\ ctxs'[c].outcome # "dismissed"

C15_SlotRunningNoChange ==
    [][\A c \in Ctxs :
          (/\ ReplyStep(c, "cancel")
           /\ \E h \in ctxs'[c].chosen : h < now) =>
              /\ ctxs'[c].pc = "done"
              /\ ctxs'[c].outcome = "SlotRunning"
              /\ UNCHANGED <<coins, accountability_rooms, accountability_members,
                             upcoming_slot, room_lock>>
      ]_vars

\* Rejected with a past and a future slot selected, both rows still there.
C15_Witness ==
    \E c \in Ctxs :
        /\ ctxs[c].pc = "done"
        /\ ctxs[c].command = "cancel"
        /\ ctxs[c].outcome = "SlotRunning"
        /\ \E h1, h2 \in ctxs[c].chosen :
              /\ h1 < now /\ ~(h2 < now)
              /\ accountability_members[ctxs[c].author][h1] # <<>>
              /\ accountability_members[ctxs[c].author][h2] # <<>>

\* C16: a booking inserts no reservation for a slot the member has booked
\* already, nor for a slot in the past or within the lead time of 660 seconds,
\* and a member never holds two reservations on one slot.
C16_NoStaleBooking ==
    [][ /\ \A c \in Ctxs :
              InsertStep(c) =>
                  \A h \in ctxs'[c].chosen :
                      /\ accountability_members[ctxs[c].author][h] = <<>>
                      /\ ~(h < now)
                      /\ LeadOk(h, now)
        /\ \A m \in Members, h \in Hours : Len(accountability_members'[m][h]) <= 1
      ]_vars

(***************************************************************************)
(* Session.finish, pending starts and expiry.                              *)
(***************************************************************************)
\* The expiry coroutine of the member's Session object sid wakes up in this
\* step, finds the member study capped and calls finish() on its object.
ExpiryFinishStep(m, sid) ==
    /\ objects[m][sid].expiry > 0
    /\ objects'[m][sid].expiry = objects[m][sid].expiry - 1
    /\ StudyCapped(m)
    /\ init_pc' = init_pc
    /\ last_call'.op = "expiry"
    /\ last_call'.userid = m

\* C17: finish() called on a Session object that is not the member's entry
\* of the cache (finished before, or replaced by a newer Session) is a no-op:
\* no row is closed and no cache entry is removed.
C17_FinishIdempotent ==
    [][\A m \in Members, sid \in SessionIds :
          (ExpiryFinishStep(m, sid) /\ sessions[m] # sid) =>
              /\ current_sessions' = current_sessions
              /\ sessions' = sessions
      ]_vars

\* The tracker handles the member leaving the voice channels while the
\* member has no session.
LeaveStep(m) ==
    /\ handler_attached /\ guild_resolvable
    /\ voice[m].channel # NoChannel
    /\ voice'[m].channel = NoChannel
    /\ sessions[m] = 0

\* C18: cancelling the member's pending start is idempotent.  A leave with
\* no pending start registered, or with one whose timer has fired already,
\* raises nothing and changes neither a task nor a session; a leave with a
\* sleeping pending start cancels it; either way no pending start is
\* registered afterwards.
C18_PendingCancelIdempotent ==
    [][\A m \in Members :
          LeaveStep(m) =>
              LET pending == members_pending[m] IN
              /\ last_call'.op = "voice_state_update"
              /\ last_call'.raised = "none"
              /\ members_pending'[m] = 0
              /\ sessions' = sessions /\ current_sessions' = current_sessions
              /\ IF pending # 0 /\ tasks[m][pending].status = "sleeping"
                 THEN tasks' = [tasks EXCEPT ![m][pending].status = "cancelled"]
                 ELSE tasks' = tasks
      ]_vars

\* A leave has unregistered a pending start whose timer had fired.
C18_Witness ==
    \E m \in Members :
        /\ last_call = [op |-> "voice_state_update", userid |-> m, raised |-> "none"]
        /\ voice[m].channel = NoChannel
        /\ members_pending[m] = 0
        /\ sessions[m] = 0
        /\ \E tid \in TaskIds : tasks[m][tid].status = "done"
        /\ \A tid \in TaskIds : tasks[m][tid].status # "cancelled"

\* Session.start is called for a member who is study capped and has no
\* session, or whose session the tracker finishes first: by another module,
\* by a pending start whose timer fires, or by the tracker on a channel change.
CappedStartStep(m) ==
    /\ StudyCapped(m)
    /\ \/ sessions[m] = 0 /\ StartCallStep(m)
       \/ /\ handler_attached /\ guild_resolvable
          /\ voice'[m].channel \notin {NoChannel, voice[m].channel}
          /\ start_session(m, voice'[m])
          /\ VoiceStateUpdate(m, voice'[m])

Sleeping(T, m) == {tid \in TaskIds : T[m][tid].status = "sleeping"}

\* C19: a start for a capped member without an active session persists no
\* row and adds nothing to the cache; the pending start registered before is
\* cancelled and one new pending start is registered.  A member never has
\* more than one pending start that is neither cancelled nor fired.
C19_CappedStartDefers ==
    [][ /\ \A m \in Members :
              CappedStartStep(m) =>
                  LET old == members_pending[m]
                      new == members_pending'[m]
                  IN /\ last_call'.raised = "none"
                     /\ sessions'[m] = 0
                     /\ current_sessions'[m] =
                            IF sessions[m] # 0 THEN <<>> ELSE current_sessions[m]
                     /\ new # 0
                     /\ Sleeping(tasks', m) = {new}
                     /\ old \notin {0, new} =>
                            tasks'[m][old].status \in {"cancelled", "done"}
        /\ \A m \in Members :
              /\ Cardinality(Sleeping(tasks', m)) <= 1
              /\ Sleeping(tasks', m) \subseteq {members_pending'[m]}
      ]_vars

\* A capped start has replaced a sleeping pending start by a new one.
C19_Witness ==
    \E m \in Members :
        /\ last_call = [op |-> "start", userid |-> m, raised |-> "none"]
        /\ StudyCapped(m)
        /\ sessions[m] = 0 /\ ~HasRow(m)
        /\ members_pending[m] # 0
        /\ tasks[m][members_pending[m]].status = "sleeping"

\* C20: when the expiry of the member's active session fires, the budget is
\* read again: with none left the session is finished, its cache entry
\* removed and its row closed; otherwise the session stays active and a new
\* expiry is scheduled.  So an active session of a member whose budget is
\* used up is finished in the end, unless the budget is extended.
C20_ExpiryFinishesOrReschedules ==
    /\ [][\A m \in Members, sid \in SessionIds :
             (sessions[m] = sid /\ ExpiryFire(m, sid)) =>
                 IF StudyCapped(m)
                 THEN /\ sessions'[m] = 0
                      /\ current_sessions'[m] = <<>>
                 ELSE /\ sessions'[m] = sid
                      /\ current_sessions' = current_sessions
                      /\ objects'[m][sid].expiry = 1
        ]_vars
    /\ \A m \in Members :
          (sessions[m] # 0 /\ StudyCapped(m)) ~> (sessions[m] = 0 \/ ~StudyCapped(m))

\* The expiry has finished the session of a capped member who is still present.
C20_Witness ==
    \E m \in Members :
        /\ last_call = [op |-> "expiry", userid |-> m, raised |-> "none"]
        /\ StudyCapped(m)
        /\ voice[m].channel \notin {NoChannel, "U"}
        /\ sessions[m] = 0
        /\ ~HasRow(m)
        /\ \A sid \in SessionIds : objects[m][sid].expiry = 0

\* C21: finish() cancels the expiry of its Session object: the expiry of an
\* object that is not the member's cache entry any more never fires, and an
\* object never has more than one expiry outstanding.
C21_FinishCancelsExpiry ==
    [][\A m \in Members, sid \in SessionIds :
          /\ ExpiryFire(m, sid) => sessions[m] = sid
          /\ objects'[m][sid].expiry <= 1
      ]_vars

\* One sub-timer after save_live_status at time t with its flag.
SubTimerUpdated(duration0, start0, duration1, start1, flag, t) ==
    /\ duration1 = duration0 + (IF start0 # <<>> THEN t - start0[1] ELSE 0)
    /\ duration1 >= duration0
    /\ start1 = IF flag THEN <<t>> ELSE <<>>

\* C22: save_live_status uses one instant for the whole update; each of the
\* three sub-timers adds the time since its start to its duration if it was
\* running, and then runs from that instant if its flag is set and is
\* stopped if not, the combined flag being video or stream.  After an update
\* and after a session start a sub-timer runs if and only if its flag is
\* set, the combined one if and only if one of the others runs, and no
\* duration decreases.
C22_LiveStatusUpdate ==
    [][\A m \in Members :
          /\ (HasRow(m) /\ LiveStatusStep(m)) =>
                 LET r == Row(m)
                     q == Row(m)'
                     f == voice'[m]
                 IN /\ HasRow(m)'
                    /\ SubTimerUpdated(r.video_duration, r.video_start,
                                       q.video_duration, q.video_start, f.self_video, now)
                    /\ SubTimerUpdated(r.stream_duration, r.stream_start,
                                       q.stream_duration, q.stream_start, f.self_stream, now)
                    /\ SubTimerUpdated(r.live_duration, r.live_start,
                                       q.live_duration, q.live_start,
                                       f.self_video \/ f.self_stream, now)
          /\ ((~HasRow(m) \/ LiveStatusStep(m)) /\ HasRow(m)') =>
                 LET q == Row(m)'
                 IN /\ q.video_start # <<>> <=> voice'[m].self_video
                    /\ q.stream_start # <<>> <=> voice'[m].self_stream
                    /\ q.live_start # <<>> <=> (q.video_start # <<>> \/ q.stream_start # <<>>)
      ]_vars

\* Started streaming at 0, updated at 2 to video only.
C22_Witness ==
    /\ last_call.op = "voice_state_update"
    /\ HasRow("u1")
    /\ now = 2
    /\ Row("u1").start_time = 0
    /\ Row("u1").video_start = <<2>> /\ Row("u1").video_duration = 0
    /\ Row("u1").stream_start = <<>> /\ Row("u1").stream_duration = 2
    /\ Row("u1").live_start = <<2>> /\ Row("u1").live_duration = 2

\* The tracker handles the member leaving the voice channels.
ExitStep(m) ==
    /\ handler_attached /\ guild_resolvable
    /\ voice[m].channel # NoChannel
    /\ voice'[m].channel = NoChannel

\* C23: after the tracker has handled a member leaving the voice channels
\* the member has no cache entry and no pending start that can still fire: an
\* active session is finished, a pending start is cancelled and unregistered.
C23_ExitClearsMember ==
    [][\A m \in Members :
          ExitStep(m) =>
              /\ sessions'[m] = 0
              /\ sessions[m] # 0 => ~HasRow(m)'
              /\ Sleeping(tasks', m) = {}
              /\ \A tid \in Sleeping(tasks, m) :
                    /\ tasks'[m][tid].status = "cancelled"
                    /\ members_pending'[m] = 0
      ]_vars

\* A leave has cancelled a sleeping pending start.
C23_Witness ==
    \E m \in Members :
        /\ last_call = [op |-> "voice_state_update", userid |-> m, raised |-> "none"]
        /\ voice[m].channel = NoChannel
        /\ sessions[m] = 0
        /\ members_pending[m] = 0
        /\ \E tid \in TaskIds : tasks[m][tid].status = "cancelled"

\* The tracker handles the member entering a channel or moving to another.
EntryStep(m) ==
    /\ handler_attached /\ guild_resolvable
    /\ voice'[m].channel \notin {NoChannel, voice[m].channel}

\* C24: on an entry or a channel change the tracker calls start for the
\* destination if and only if the channel is not untracked and the member is
\* on neither the blacklist nor the guild's ignore list; otherwise the event
\* leaves the member with no session and no pending start, a previous
\* session being finished all the same.
C24_StartOnlyIfTracked ==
    [][\A m \in Members :
          EntryStep(m) =>
              LET eligible == /\ voice'[m].channel \notin untracked
                              /\ m \notin blacklist
                              /\ m \notin guild_blacklist
              IN IF eligible
                 THEN \/ /\ sessions'[m] # 0
                         /\ sessions'[m] # sessions[m]
                         /\ HasRow(m)'
                         /\ Row(m)'.channelid = voice'[m].channel
                         /\ Row(m)'.start_time = now
                      \/ /\ sessions'[m] = 0
                         /\ StudyCapped(m)
                         /\ Sleeping(tasks', m) = {members_pending'[m]}
                 ELSE /\ sessions'[m] = 0
                      /\ sessions[m] # 0 => ~HasRow(m)'
                      /\ current_sessions'[m] \in {<<>>, current_sessions[m]}
                      /\ Sleeping(tasks', m) = {}
      ]_vars

\* A blacklisted member with a session has moved to another tracked channel.
C24_Witness ==
    \E m \in Members :
        /\ last_call = [op |-> "voice_state_update", userid |-> m, raised |-> "none"]
        /\ m \in blacklist \cup guild_blacklist
        /\ voice[m].channel \in Channels \ untracked
        /\ sessions[m] = 0
        /\ ~HasRow(m)
        /\ \E sid \in SessionIds : objects[m][sid].expiry > 0

\* C25: startup, after the rows are resumed or finished, starts a session or
\* a pending start for the members present in a tracked channel who are
\* eligible and have no session, and for nobody else: not for a member on
\* the blacklist or on the guild's ignore list.
C25_StartupStartsEligibleOnly ==
    [][(init_pc = "launch" /\ init_pc' = "done") =>
          \A m \in Members :
              ~HasRow(m) =>
                  ((sessions'[m] # 0 \/ Sleeping(tasks', m) # {})
                     <=> /\ guild_resolvable
                         /\ voice[m].channel \notin {NoChannel} \cup untracked
                         /\ m \notin blacklist
                         /\ m \notin guild_blacklist)
      ]_vars

\* The step in which the scanner calls _scan for the i-th guild.
GuildScanStep(i) == scan_pc = i /\ scan_pc' # i

\* C26: a scan of a guild with no last-scan timestamp, or with an interval
\* over the ceiling of 20 minutes, credits nobody; every scan, these two and
\* one that raises included, sets the guild's last-scan timestamp to its now.
C26_ScanSetsLastScan ==
    [][\A i \in DOMAIN Guilds :
          GuildScanStep(i) =>
              LET g == Guilds[i] IN
              /\ last_scan'[g] = <<time>>
              /\ \A h \in GuildIds \ {g} : last_scan'[h] = last_scan[h]
              /\ (last_scan[g] = <<>> \/ IntervalOf(g) > 20 * 60) =>
                    /\ lion_time' = lion_time
                    /\ lion_coins' = lion_coins
                    /\ scan_result'.outcome \in {"first", "discarded"}
      ]_vars

\* The first scan of a guild, with an eligible member present, credited nobody.
C26_Witness ==
    /\ scan_result.guild = "g1"
    /\ scan_result.outcome = "first"
    /\ time > 0
    /\ last_scan["g1"] = <<time>>
    /\ \E m \in Members : Credited("g1", m)
    /\ \A m \in Members : lion_time["g1"][m] = 0 /\ lion_coins["g1"][m] = 0

\* C27: a scan that credits with interval I gives every member who is in a
\* channel of the guild that is not untracked, is no bot and is on neither
\* the blacklist nor the guild's ignore list I seconds and (hourly reward,
\* plus the live bonus if streaming or on camera) * I / 3600 coins, and
\* nobody else anything.  Coins are counted in 3600ths.
C27_ScanCreditsEligible ==
    [][\A i \in DOMAIN Guilds :
          (GuildScanStep(i) /\ scan_result'.outcome = "credited") =>
              LET g == Guilds[i]
                  I == IntervalOf(g)
              IN /\ \A m \in Members :
                       IF /\ scan_voice[g][m].channel \in Channels \ untracked
                          /\ m \notin bots
                          /\ m \notin blacklist \cup guild_blacklist
                       THEN /\ lion_time'[g][m] = lion_time[g][m] + I
                            /\ lion_coins'[g][m] = lion_coins[g][m]
                                  + I * (guild_hourly_reward[g]
                                         + IF IsLive(g, m) THEN guild_hourly_live_bonus[g]
                                           ELSE 0)
                       ELSE /\ lion_time'[g][m] = lion_time[g][m]
                            /\ lion_coins'[g][m] = lion_coins[g][m]
                 /\ \A h \in GuildIds \ {g} :
                       lion_time'[h] = lion_time[h] /\ lion_coins'[h] = lion_coins[h]
      ]_vars

\* u1 on camera was credited 600 seconds at 6 + 12 coins an hour; the bot u2,
\* present as well, nothing.
C27_Witness ==
    /\ scan_result = [guild |-> "g1", interval |-> <<600>>, outcome |-> "credited"]
    /\ IsLive("g1", "u1")
    /\ lion_time["g1"]["u1"] = 600
    /\ lion_coins["g1"]["u1"] = 600 * 18
    /\ "u2" \in bots
    /\ scan_voice["g1"]["u2"].channel \in Channels \ untracked
    /\ lion_time["g1"]["u2"] = 0

\* C28: a pending start that fires, not having been cancelled, calls start
\* again: with budget the member gets an active session, without it a new
\* pending start takes its place; a cancelled pending start never fires.  So
\* a member with a pending start whose budget has been reset gets an active
\* session in the end, unless the member leaves or is capped again (as long
\* as the model has a Session object left to give out).
C28_PendingFires ==
    /\ [][\A m \in Members, tid \in TaskIds :
             /\ (sessions[m] = 0 /\ DelayedStartFire(m, tid)) =>
                    /\ tasks[m][tid].status = "sleeping"
                    /\ members_pending[m] = tid
                    /\ IF StudyCapped(m)
                       THEN /\ sessions'[m] = 0
                            /\ current_sessions' = current_sessions
                            /\ members_pending'[m] # 0
                            /\ Sleeping(tasks', m) = {members_pending'[m]}
                       ELSE /\ sessions'[m] # 0
                            /\ HasRow(m)'
                            /\ Row(m)'.start_time = now
                            /\ Sleeping(tasks', m) = {}
             /\ tasks[m][tid].status = "cancelled" => ~DelayedStartFire(m, tid)
             /\ (/\ sessions[m] = 0
                 /\ sessions'[m] # 0
                 /\ last_call'.op = "delayed_start"
                 /\ last_call'.userid = m)
                    => \E t \in TaskIds : /\ members_pending[m] = t
                                          /\ tasks[m][t].status = "sleeping"
                                          /\ tasks'[m][t].status = "done"
        ]_vars
    /\ \A m \in Members :
          (/\ Sleeping(tasks, m) # {}
           /\ ~StudyCapped(m)
           /\ FreeSessionIds(Engine, m) # {})
             ~> (sessions[m] # 0 \/ StudyCapped(m) \/ Sleeping(tasks, m) = {})

\* A pending start has fired after the budget was reset: the member, still
\* in the channel, has a session.
C28_Witness ==
    \E m \in Members :
        /\ last_call = [op |-> "delayed_start", userid |-> m, raised |-> "none"]
        /\ sessions[m] # 0
        /\ HasRow(m)
        /\ voice[m].channel = Row(m).channelid
        /\ ~StudyCapped(m)
        /\ tasks[m][members_pending[m]].status = "done"

\* C29: no unpaid reservations.  When a booking command that has inserted
\* reservation rows ends (it returns, raises, or is cancelled by a newer
\* command of its author while suspended in the activation of the slot), the
\* member is debited the amount recorded in those rows.
C29_NoUnpaidReservation ==
    [][\A c \in Ctxs :
          (/\ ctxs'[c].command = "book"
           /\ ctxs[c].pc # "done"
           /\ ctxs'[c].pc = "done"
           /\ ctxs'[c].cost > 0)
             => coins'[ctxs'[c].author] = coins[ctxs'[c].author] - ctxs'[c].cost
      ]_vars

\* A booking command that has passed the balance check and inserted its rows
\* and has not yet debited the member.
BetweenCheckAndDebit(c) ==
    /\ ctxs[c].command = "book"
    /\ ctxs[c].pc \in {"open", "perms", "status"}

\* C30: booking never makes a balance negative.  Two booking commands of one
\* member may both pass the balance check before any debit, but then the
\* older one has been cancelled: at most one command of a member is between
\* its check and its debit, and every balance stays at or above zero.
C30_BalanceNeverNegative ==
    /\ \A m \in Members : coins[m] >= 0
    /\ \A c, d \in Ctxs :
          (/\ BetweenCheckAndDebit(c)
           /\ BetweenCheckAndDebit(d)
           /\ ctxs[c].author = ctxs[d].author) => c = d

\* Two booking commands of one member have passed the check on the same
\* balance; the older one was cancelled and the newer one has debited.
C30_Witness ==
    \E c, d \in Ctxs :
        /\ c # d
        /\ ctxs[c].author = ctxs[d].author
        /\ ctxs[c].command = "book" /\ ctxs[d].command = "book"
        /\ ctxs[c].cost > 0 /\ ctxs[d].cost > 0
        /\ ctxs[c].balance = ctxs[d].balance
        /\ ctxs[c].balance < ctxs[c].cost + ctxs[d].cost
        /\ ctxs[c].outcome = "CancelledError"
        /\ ctxs[d].outcome = "booked"
        /\ coins[ctxs[d].author] = ctxs[d].balance - ctxs[d].cost

\* C31: a reservation is refunded exactly once.  Of two cancel commands of
\* one member that selected the same reservation, only the one whose delete
\* removed the row is credited for it: every cancel command that ends is
\* credited the paid amounts of the rows its own delete removed, so that the
\* credits of both commands add up to the paid amount of the reservation.
C31_RefundExactlyOnce ==
    [][\A c \in Ctxs :
          (/\ ctxs'[c].command = "cancel"
           /\ ctxs[c].pc # "done"
           /\ ctxs'[c].pc = "done")
             => coins'[ctxs'[c].author] =
                    coins[ctxs'[c].author] + refund_of(ctxs'[c].deleted)
      ]_vars

\* C32: a reservation is never deleted after the start time of its slot has
\* passed: every step in which a cancel command deletes a member's rows of a
\* slot is taken while the slot's start time is not yet behind the clock, also
\* when the command had to wait for the room lock after its start-time check.
C32_NoCancelAfterStart ==
    [][\A m \in Members, h \in Hours :
          (/\ accountability_members[m][h] # <<>>
           /\ accountability_members'[m][h] = <<>>) => ~(h < now)
      ]_vars

\* C33: Active and Pending exclude each other: a member with an entry in
\* Session.sessions has no entry in Session.members_pending, also after the
\* pending start has fired and started the session.
C33_ActivePendingExclusive ==
    \A m \in Members : sessions[m] # 0 => members_pending[m] = 0

\* The calls of Session.start that the loop over new_members would make from
\* this state, as the startup makes them: the exception of the last one.
StartupStartRaises ==
    {StartNewMembers(ResumeRows(Engine, order, failAt, now), order,
                     new_members(ResumeRows(Engine, order, failAt, now)), now).raised :
        order \in Orders, failAt \in Members \cup {"None"}}

\* C34: under the tracker's own sequencing (startup, voice events, expiry
\* and pending-start firings) Session.start is only called for a member with
\* no entry in Session.sessions, so its ValueError is never raised.
C34_StartNeverAlreadyActive ==
    [][/\ \A m \in Members, tid \in TaskIds :
             DelayedStartFire(m, tid) => sessions[m] = 0
       /\ init_pc = "launch" => "ValueError" \notin StartupStartRaises
       /\ last_call'.raised # "ValueError"
      ]_vars

\* A pending start has fired while the member, still in the channel, was
\* still capped: it called Session.start, which found no session and
\* registered a new pending start.
C34_Witness ==
    \E m \in Members :
        /\ last_call = [op |-> "delayed_start", userid |-> m, raised |-> "none"]
        /\ sessions[m] = 0
        /\ StudyCapped(m)
        /\ voice[m].channel # NoChannel
        /\ Sleeping(tasks, m) = {members_pending[m]}

====
